---- MODULE Spec2Model ----
(***************************************************************************)
(* A model of zarrio's ZarrConverter (src/zarrify/core.py) and Packer      *)
(* (src/zarrify/packing.py): the archive template builder, the region      *)
(* locator and the write-with-retry controller, over a chunked store.      *)
(*                                                                         *)
(* Time coordinates are integers (days since an epoch), a frequency is a   *)
(* positive number of days.  A data variable is abstracted to one cell per *)
(* sequence index (the slab over the extent dimensions), the extent        *)
(* dimension "lat" to its length.  An optional value is a sequence of      *)
(* length 0 (None) or 1.                                                   *)
(***************************************************************************)
EXTENDS Integers, Sequences, FiniteSets, TLC

\* ------------------------------------------------------------------ bounds
MaxRetries == 2      \* largest configured retries_on_missing
MaxOps == 2          \* public operations called per behaviour
MaxTpl == 1          \* create_template calls per behaviour
MaxEnd == 3          \* latest global_end of a template in the controller specs
MaxFragLen == 2      \* longest input fragment in the controller specs
LiveOps == 1         \* public operations per behaviour of the fair spec
MaxDimLen == 4       \* longest dimension the advisor is tried on
MaxTarget == 8       \* largest byte budget the advisor is tried on
ScaleBitsMax == 16   \* widest bit-width whose scale is computed (2^b fits)
MaxValid == 2        \* largest magnitude of valid_min and valid_max tried
BackoffRetries == 3  \* retries_on_missing of the backoff spec
LocAxisMax == 10     \* longest archive axis the locator is tried on
LocFragLen == 5      \* longest fragment the locator is tried on
TplEndMax == 10      \* latest global_end the template builder is tried on

\* ------------------------------------------------------- program constants
DefaultFreq == 1         \* "1D", the default frequency
BufferNum == 1001        \* vmax + (vmax - vmin) * 0.001, as a fraction
BufferDen == 1000
SleepTenths == 1         \* time.sleep(0.1 * n): tenths of a time unit per retry
PackBits == 8            \* a bit-width the Packer accepts

None == << >>
Some(v) == << v >>
IsNone(o) == o = << >>
Get(o) == o[1]

Threads == {1, 2}

Min(a, b) == IF a < b THEN a ELSE b
Max(a, b) == IF a > b THEN a ELSE b

RECURSIVE Pow2(_)
Pow2(n) == IF n = 0 THEN 1 ELSE 2 * Pow2(n - 1)

\* ----------------------------------------------------------------- values
\* A cell of a dataset in memory: missing (NaN) or a number.
NaN == [miss |-> TRUE, val |-> 0]
Num(v) == [miss |-> FALSE, val |-> v]
\* A value read back from the store, as a fraction num/den.
Frac(n, d) == [miss |-> FALSE, num |-> n, den |-> d]
FracNaN == [miss |-> TRUE, num |-> 0, den |-> 1]

\* ---------------------------------------------------------------- packing
\* Packer.compute_scale_and_offset with the buffered vmax of setup_encoding:
\* scale_factor = ScaleNum / ScaleDen, offset = vmin + 2^(nbits-1) * scale_factor.
ScaleNum(vmin, vmax) ==
    IF vmax = vmin THEN BufferDen ELSE BufferNum * (vmax - vmin)
ScaleDen(vmin, vmax, nbits) ==
    IF vmax = vmin THEN BufferDen ELSE BufferDen * (Pow2(nbits) - 1)

\* round half up of a / b, b > 0
RoundDiv(a, b) == (2 * a + b) \div (2 * b)

\* FixedScaleOffset.encode: round((x - offset) * (1 / scale_factor))
PackEncode(x, vmin, vmax, nbits) ==
    RoundDiv((x - vmin) * ScaleDen(vmin, vmax, nbits), ScaleNum(vmin, vmax))
        - Pow2(nbits - 1)

\* FixedScaleOffset.decode: q * scale_factor + offset, as a fraction
PackDecode(q, vmin, vmax, nbits) ==
    Frac(vmin * ScaleDen(vmin, vmax, nbits)
            + (q + Pow2(nbits - 1)) * ScaleNum(vmin, vmax),
         ScaleDen(vmin, vmax, nbits))

\* ------------------------------------------------------------------ state
VARIABLES
    cfg,       \* ZarrConverterConfig: retries_on_missing, missing_check_vars, ...
    store,     \* the Zarr archive at the output path
    th,        \* per invocation (thread or process): the controller's locals
    retried,   \* self.retried_on_missing of each ZarrConverter instance
    opsLeft,   \* public operations the callers may still start
    tpl,       \* the arguments and result of the last create_template call
    adv,       \* the Chunk Advisor's call: its inputs and the plan it shrinks
    pk,        \* a Packer: its construction and the result of its last call
    chk,       \* a call of _has_missing on data variables: inputs and outcome
    lay        \* the chunk lengths a template build or a write gave each dimension

vars == << cfg, store, th, retried, opsLeft, tpl, adv, pk, chk, lay >>

\* no recommendation was asked for
NoAdvice == [pc |-> "idle"]

\* _has_missing was not called
NoCheck == [pc |-> "idle"]

\* no template was built and no dataset chunked yet
NoLayout == [pc |-> "idle"]

\* no Packer was constructed; zarr: FixedScaleOffset could be imported
NoPacker == [pc |-> "none", zarr |-> TRUE]

\* ---------------------------------------------------------------- datasets
\* a variant of date_range that leaves the end out
RECURSIVE DateRangeOpen(_, _, _)
DateRangeOpen(start, end, freq) ==
    IF start >= end THEN << >>
    ELSE << start >> \o DateRangeOpen(start + freq, end, freq)

\* pandas.date_range(start, end, freq): start, start + freq, ... while <= end
RECURSIVE DateRange(_, _, _)
DateRange(start, end, freq) ==
    IF start > end THEN << >>
    ELSE << start >> \o DateRange(start + freq, end, freq)

\* A dataset in memory: sequence coordinates, one cell per coordinate, the
\* length of the extent dimension, and the valid_min/valid_max attributes.
Dataset(times, vals, lat, range) ==
    [times |-> times, vals |-> vals, lat |-> lat, range |-> range]

NoStore ==
    [exists |-> FALSE, axis |-> << >>, cells |-> << >>, lat |-> 0,
     chunkT |-> 1, filt |-> 0, range |-> None, written |-> {},
     madeBy |-> "none"]

EmptyDs == Dataset(<< >>, << >>, 0, None)

\* the locals of an invocation before a public operation starts; attempts,
\* writes, regr, exc, vfail, lost (the store lost a cell in the current
\* attempt), sleeps, before (the archive at the call, or at the call of the
\* killed run this one repeats), rerun (this call repeats the previous
\* one, which was killed or done) and last (the failure that ended the latest
\* failed attempt) record its history; prior is the value the instance's
\* retry counter had when the operation was called
IdleThread(i) ==
    [pc |-> "idle", op |-> "none", inst |-> i, frag |-> EmptyDs, ds |-> EmptyDs,
     region |-> None, others |-> None, ci |-> None, buf |-> None,
     attempts |-> 0, writes |-> 0, regr |-> 0, exc |-> 0, vfail |-> 0,
     lost |-> FALSE, sleeps |-> << >>, err |-> None, before |-> NoStore,
     rerun |-> "no", last |-> None, prior |-> 0]

\* the value xarray reads back from cell i of the archive
ReadCell(st, i) ==
    LET c == st.cells[i] IN
    IF c.miss THEN FracNaN
    ELSE IF st.filt = 0 THEN Frac(c.val, 1)
    ELSE PackDecode(c.val, Get(st.range)[1], Get(st.range)[2], st.filt)

\* a variant of the encoding that is off by one unit
EncodeCellShifted(st, v) ==
    IF v.miss THEN NaN ELSE Num(v.val + 1)

\* what the store keeps for value v of a dataset (CF mask, then the filter)
EncodeCell(st, v) ==
    IF v.miss THEN NaN
    ELSE IF st.filt = 0 THEN Num(v.val)
    ELSE Num(PackEncode(v.val, Get(st.range)[1], Get(st.range)[2], st.filt))

\* a value read back equals the value of the dataset in memory
SameValue(r, v) ==
    IF v.miss \/ r.miss THEN v.miss = r.miss
    ELSE r.num = v.val * r.den

\* ------------------------------------------------------- create_template
\* ZarrConverter._chunking_config_to_dict, the sequence ("time") entry
ChunkingTime == cfg.chunkTime

\* a variant that lets the configured frequency win over the argument
ResolveFreqConfigFirst(sample, freqArg) ==
    LET f1 == IF IsNone(cfg.freq) THEN freqArg ELSE cfg.freq IN
    IF ~IsNone(f1) THEN Get(f1)
    ELSE IF Len(sample.times) >= 2 THEN sample.times[2] - sample.times[1]
    ELSE DefaultFreq

\* the frequency _create_hindcast_template uses
ResolveFreq(sample, freqArg) ==
    LET f1 == IF IsNone(freqArg) THEN cfg.freq ELSE freqArg IN
    IF ~IsNone(f1) THEN Get(f1)
    ELSE IF Len(sample.times) >= 2 THEN sample.times[2] - sample.times[1]
    ELSE DefaultFreq

ResolveStart(sample, startArg) ==
    LET s1 == IF IsNone(startArg) THEN cfg.gstart ELSE startArg IN
    IF ~IsNone(s1) THEN s1
    ELSE IF Len(sample.times) > 0 THEN Some(sample.times[1]) ELSE None

ResolveEnd(sample, endArg) ==
    LET e1 == IF IsNone(endArg) THEN cfg.gend ELSE endArg IN
    IF ~IsNone(e1) THEN e1
    ELSE IF Len(sample.times) > 0 THEN Some(sample.times[Len(sample.times)])
    ELSE None

\* the full time coordinate of the template
FullTime(sample, startArg, endArg, freqArg) ==
    DateRange(Get(ResolveStart(sample, startArg)),
              Get(ResolveEnd(sample, endArg)),
              ResolveFreq(sample, freqArg))

\* a variant in which the variables are one entry shorter than the axis
TemplateVarLenShort(fullTime) == Len(fullTime) - 1

\* length of the sequence dimension of every data variable of the template
TemplateVarLen(fullTime) == Len(fullTime)

\* the filter _setup_encoding attaches: the packing bits, or 0 for none
PackingFilter(ds) ==
    IF cfg.packing > 0 /\ ~IsNone(ds.range) THEN cfg.packing ELSE 0

\* the archive skeleton _create_hindcast_template and to_zarr(mode="w",
\* compute=False) leave: metadata only, no chunk written
TemplateStore(sample, fullTime) ==
    [exists |-> TRUE,
     axis |-> fullTime,
     cells |-> [i \in 1..TemplateVarLen(fullTime) |-> NaN],
     lat |-> sample.lat,
     chunkT |-> IF IsNone(ChunkingTime) THEN Max(1, Len(fullTime))
                ELSE Max(1, Min(Get(ChunkingTime), Len(fullTime))),
     filt |-> PackingFilter(sample),
     range |-> sample.range,
     written |-> {},
     madeBy |-> "create_template"]

\* the inputs create_template raises on (wrapped as ConversionError)
TemplateFails(sample, startArg, endArg, freqArg) ==
    \/ IsNone(ResolveStart(sample, startArg))
    \/ IsNone(ResolveEnd(sample, endArg))
    \/ ResolveFreq(sample, freqArg) <= 0

\* to_zarr(compute=True) of the template: the zeros of every variable are
\* stored, chunk by chunk
ComputedStore(st) ==
    [st EXCEPT !.cells = [i \in 1..Len(@) |-> EncodeCell(st, Num(0))],
               !.written = IF Len(st.cells) = 0 THEN {}
                           ELSE 0..((Len(st.cells) - 1) \div st.chunkT)]

CreateTemplate(w, sample, startArg, endArg, freqArg, compute) ==
    /\ w \in cfg.threads
    /\ \A v \in Threads : th[v].pc \in {"idle", "DONE", "FAILED", "KILLED"}
    /\ tpl.calls < MaxTpl
    /\ th' = [th EXCEPT ![w] = IdleThread(w)]
    /\ IF TemplateFails(sample, startArg, endArg, freqArg)
       THEN /\ tpl' = [calls |-> tpl.calls + 1, out |-> "ConversionError",
                       sample |-> sample, start |-> startArg, end |-> endArg,
                       freq |-> freqArg, compute |-> compute, used |-> None]
            /\ UNCHANGED store
       ELSE /\ store' =
                   LET skeleton == TemplateStore(sample,
                                      FullTime(sample, startArg, endArg, freqArg))
                   IN  IF compute THEN ComputedStore(skeleton) ELSE skeleton
            /\ tpl' = [calls |-> tpl.calls + 1, out |-> "ok",
                       sample |-> sample, start |-> startArg, end |-> endArg,
                       freq |-> freqArg, compute |-> compute,
                       used |-> Some(ResolveFreq(sample, freqArg))]
    /\ UNCHANGED << cfg, retried, opsLeft, adv, pk, chk, lay >>

\* cli.create_template_command: compute = not args.metadata_only
CreateTemplateCommand(w, sample, startArg, endArg, freqArg, metadataOnly) ==
    CreateTemplate(w, sample, startArg, endArg, freqArg, ~metadataOnly)

\* --------------------------------------------------------- Region Locator
\* numpy.searchsorted(a, key, side): binary search over a[lo+1..hi]
RECURSIVE SearchSorted(_, _, _, _, _)
SearchSorted(a, key, side, lo, hi) ==
    IF lo >= hi THEN lo
    ELSE LET mid == lo + ((hi - lo) \div 2) IN
         IF \/ a[mid + 1] < key
            \/ (side = "right" /\ a[mid + 1] = key)
         THEN SearchSorted(a, key, side, mid + 1, hi)
         ELSE SearchSorted(a, key, side, lo, mid)

\* a variant of the locator that searches the end from the left as well
DetermineRegionLeft(ds, axis) ==
    << SearchSorted(axis, ds.times[1], "left", 0, Len(axis)),
       SearchSorted(axis, ds.times[Len(ds.times)], "left", 0, Len(axis)) >>

\* ZarrConverter._determine_region for the sequence dimension: << start, end >>,
\* the half-open index interval, indices from 0
DetermineRegion(ds, axis) ==
    << SearchSorted(axis, ds.times[1], "left", 0, Len(axis)),
       SearchSorted(axis, ds.times[Len(ds.times)], "right", 0, Len(axis)) >>

\* slice(None): a slice without bounds
FullSlice == "slice(None)"

\* the half-open index interval a slice selects on a dimension of length n
SliceInterval(sl, n) == IF sl = FullSlice THEN << 0, n >> ELSE sl

\* the dimensions of the archive other than the sequence dimension, each with
\* its length
OtherDims(st) == [d \in {"lat"} |-> st.lat]

\* a variant of the locator that leaves the other dimensions out of the region
DetermineRegionOthersNone(st) == [d \in {} |-> FullSlice]

\* ZarrConverter._determine_region for the other dimensions of the archive:
\* region[dim] = slice(None)
DetermineRegionOthers(st) == [d \in DOMAIN OtherDims(st) |-> FullSlice]

\* _determine_region raises: the store cannot be opened, or the fragment has
\* no sequence coordinate (to_index()[0] on an empty index)
DetermineRegionRaises(ds, st) == ~st.exists \/ Len(ds.times) = 0

\* ------------------------------------------------ Write-with-Retry Controller
Resting == {"idle", "DONE", "FAILED", "KILLED"}

\* TimeManager.remove_duplicates: the indices kept, first occurrence wins
RECURSIVE KeepFirst(_, _)
KeepFirst(times, n) ==
    IF n = 0 THEN << >>
    ELSE IF \E j \in 1..(n - 1) : times[j] = times[n]
         THEN KeepFirst(times, n - 1)
         ELSE Append(KeepFirst(times, n - 1), n)

RemoveDuplicates(ds) ==
    LET k == KeepFirst(ds.times, Len(ds.times)) IN
    Dataset([i \in 1..Len(k) |-> ds.times[k[i]]],
            [i \in 1..Len(k) |-> ds.vals[k[i]]], ds.lat, ds.range)

\* ZarrConverter._process_dataset
ProcessDataset(ds) == RemoveDuplicates(ds)

\* TimeManager.align_for_append
AlignForAppend(existing, new) == new

\* a variant that sleeps the same time before every retry
SleepDelayFlat(k) == SleepTenths

\* time.sleep(0.1 * self.retried_on_missing), in tenths of a time unit; k is
\* the counter after its increment
SleepDelay(k) == SleepTenths * k

\* a variant of the exception branch that raises without `from e`
CaughtNoCause(w, t, kind) ==
    IF retried[t.inst] < cfg.retries
    THEN /\ retried' = [retried EXCEPT ![t.inst] = @ + 1]
         /\ th' = [th EXCEPT ![w] =
                [t EXCEPT !.pc = "RETRY", !.exc = @ + 1, !.ci = None,
                          !.buf = None, !.last = Some(kind),
                          !.sleeps = Append(@, SleepDelay(retried[t.inst] + 1))]]
    ELSE /\ UNCHANGED retried
         /\ th' = [th EXCEPT ![w] =
                [t EXCEPT !.pc = "FAILED", !.exc = @ + 1, !.ci = None,
                          !.buf = None, !.last = Some(kind),
                          !.err = Some([kind |-> "ConversionError",
                                        cause |-> "ConversionError",
                                        root |-> "ConversionError",
                                        after |-> retried[t.inst]])]]

\* a variant of the exception branch that allows one retry more
CaughtOneMore(w, t, kind) ==
    IF retried[t.inst] <= cfg.retries
    THEN /\ retried' = [retried EXCEPT ![t.inst] = @ + 1]
         /\ th' = [th EXCEPT ![w] =
                [t EXCEPT !.pc = "RETRY", !.exc = @ + 1, !.ci = None,
                          !.buf = None, !.last = Some(kind),
                          !.sleeps = Append(@, SleepDelay(retried[t.inst] + 1))]]
    ELSE /\ UNCHANGED retried
         /\ th' = [th EXCEPT ![w] =
                [t EXCEPT !.pc = "FAILED", !.exc = @ + 1, !.ci = None,
                          !.buf = None, !.last = Some(kind),
                          !.err = Some([kind |-> "ConversionError",
                                        cause |-> "ConversionError",
                                        root |-> kind,
                                        after |-> retried[t.inst]])]]

\* the `except Exception` branch of the retry loops, entered with the locals t
Caught(w, t, kind) ==
    IF retried[t.inst] < cfg.retries
    THEN /\ retried' = [retried EXCEPT ![t.inst] = @ + 1]
         /\ th' = [th EXCEPT ![w] =
                [t EXCEPT !.pc = "RETRY", !.exc = @ + 1, !.ci = None,
                          !.buf = None, !.last = Some(kind),
                          !.sleeps = Append(@, SleepDelay(retried[t.inst] + 1))]]
    ELSE /\ UNCHANGED retried
         /\ th' = [th EXCEPT ![w] =
                [t EXCEPT !.pc = "FAILED", !.exc = @ + 1, !.ci = None,
                          !.buf = None, !.last = Some(kind),
                          !.err = Some([kind |-> "ConversionError",
                                        cause |-> "ConversionError",
                                        root |-> kind,
                                        after |-> retried[t.inst]])]]

\* a variant of the regression branch that allows one retry more
RegressedOneMore(w, t) ==
    IF retried[t.inst] <= cfg.retries
    THEN /\ retried' = [retried EXCEPT ![t.inst] = @ + 1]
         /\ th' = [th EXCEPT ![w] =
                [t EXCEPT !.pc = "RETRY", !.regr = @ + 1,
                          !.last = Some("RetryLimitExceededError"),
                          !.sleeps = Append(@, SleepDelay(retried[t.inst] + 1))]]
    ELSE /\ UNCHANGED retried
         /\ th' = [th EXCEPT ![w] =
                [t EXCEPT !.pc = "FAILED", !.regr = @ + 1,
                          !.last = Some("RetryLimitExceededError"),
                          !.err = Some([kind |-> "ConversionError",
                                        cause |-> "RetryLimitExceededError",
                                        root |-> "RetryLimitExceededError",
                                        after |-> retried[t.inst]])]]

\* the branch taken when _has_missing returned True
Regressed(w, t) ==
    IF retried[t.inst] < cfg.retries
    THEN /\ retried' = [retried EXCEPT ![t.inst] = @ + 1]
         /\ th' = [th EXCEPT ![w] =
                [t EXCEPT !.pc = "RETRY", !.regr = @ + 1,
                          !.last = Some("RetryLimitExceededError"),
                          !.sleeps = Append(@, SleepDelay(retried[t.inst] + 1))]]
    ELSE /\ UNCHANGED retried
         /\ th' = [th EXCEPT ![w] =
                [t EXCEPT !.pc = "FAILED", !.regr = @ + 1,
                          !.last = Some("RetryLimitExceededError"),
                          !.err = Some([kind |-> "ConversionError",
                                        cause |-> "RetryLimitExceededError",
                                        root |-> "RetryLimitExceededError",
                                        after |-> retried[t.inst]])]]

\* a variant of the call that leaves the retry counter as it is
CallNoReset(w, op, f) ==
    /\ w \in cfg.threads
    /\ th[w].pc \in Resting
    /\ opsLeft > 0
    /\ opsLeft' = opsLeft - 1
    /\ LET same == th[w].op = op /\ th[w].frag = f
           again == IF same /\ th[w].pc = "KILLED" THEN "killed"
                    ELSE IF same /\ th[w].pc = "DONE" /\ ~th[w].lost
                    THEN "done" ELSE "no"
       IN  th' = [th EXCEPT ![w] =
               [IdleThread(th[w].inst) EXCEPT
                   !.pc = "OPEN", !.op = op, !.frag = f, !.rerun = again,
                   !.prior = retried[th[w].inst],
                   !.before = IF again = "killed" THEN th[w].before
                              ELSE store]]
    /\ UNCHANGED << cfg, store, tpl, retried, adv, pk, chk, lay >>

\* a public operation starts: the retry counter is reset
Call(w, op, f) ==
    /\ w \in cfg.threads
    /\ th[w].pc \in Resting
    /\ opsLeft > 0
    /\ opsLeft' = opsLeft - 1
    /\ retried' = [retried EXCEPT ![th[w].inst] = 0]
    /\ LET same == th[w].op = op /\ th[w].frag = f
           again == IF same /\ th[w].pc = "KILLED" THEN "killed"
                    ELSE IF same /\ th[w].pc = "DONE" /\ ~th[w].lost
                    THEN "done" ELSE "no"
       IN  th' = [th EXCEPT ![w] =
               [IdleThread(th[w].inst) EXCEPT
                   !.pc = "OPEN", !.op = op, !.frag = f, !.rerun = again,
                   !.prior = retried[th[w].inst],
                   !.before = IF again = "killed" THEN th[w].before
                              ELSE store]]
    /\ UNCHANGED << cfg, store, tpl, adv, pk, chk, lay >>

\* OPEN: _open_dataset (and, for append, open_zarr of the archive)
DoOpen(w) ==
    /\ th[w].pc = "OPEN"
    /\ LET t == [th[w] EXCEPT !.attempts = @ + 1] IN
       IF t.op = "append" /\ ~store.exists
       THEN Caught(w, t, "FileNotFoundError")
       ELSE /\ th' = [th EXCEPT ![w] = [t EXCEPT !.pc = "PROCESS"]]
            /\ UNCHANGED retried
    /\ UNCHANGED << cfg, store, opsLeft, tpl, adv, pk, chk, lay >>

\* OPEN fails with a transient I/O error
OpenRaises(w) ==
    /\ th[w].pc = "OPEN"
    /\ cfg.faults
    /\ Caught(w, [th[w] EXCEPT !.attempts = @ + 1], "OSError")
    /\ UNCHANGED << cfg, store, opsLeft, tpl, adv, pk, chk, lay >>

\* PROCESS: _process_dataset, self._current_dataset = ds
DoProcess(w) ==
    /\ th[w].pc = "PROCESS"
    /\ LET t == th[w] IN
       th' = [th EXCEPT ![w] =
            [t EXCEPT !.ds = IF t.op = "append"
                             THEN AlignForAppend(store, ProcessDataset(t.frag))
                             ELSE ProcessDataset(t.frag),
                      !.pc = IF t.op = "write_region" THEN "LOCATE"
                             ELSE "WRITE"]]
    /\ UNCHANGED << cfg, store, retried, opsLeft, tpl, adv, pk, chk, lay >>

\* write_region with region=None: _determine_region on the first iteration
\* that gets this far, the same region on every later one
DoLocate(w) ==
    /\ th[w].pc = "LOCATE"
    /\ LET t == th[w] IN
       IF ~IsNone(t.region)
       THEN /\ th' = [th EXCEPT ![w] = [t EXCEPT !.pc = "WRITE"]]
            /\ UNCHANGED retried
       ELSE IF DetermineRegionRaises(t.ds, store)
       THEN Caught(w, t, IF store.exists THEN "IndexError"
                         ELSE "FileNotFoundError")
       ELSE /\ th' = [th EXCEPT ![w] =
                   [t EXCEPT !.pc = "WRITE",
                             !.region = Some(DetermineRegion(t.ds, store.axis)),
                             !.others = Some(DetermineRegionOthers(store))]]
            /\ UNCHANGED retried
    /\ UNCHANGED << cfg, store, opsLeft, tpl, adv, pk, chk, lay >>

\* ------------------------------------------------------------ WRITE (region)
\* to_zarr(region=..., safe_chunks=False) accepts the dataset: the region lies
\* inside the archive and has the dataset's shape
RegionFits(st, ds, r) ==
    /\ st.exists
    /\ r[1] <= r[2]
    /\ r[2] <= Len(st.cells)
    /\ Len(ds.times) = r[2] - r[1]
    /\ ds.lat = st.lat

ChunkLo(st, k) == k * st.chunkT
ChunkHi(st, k) == Min((k + 1) * st.chunkT, Len(st.cells))
FirstChunk(st, r) == r[1] \div st.chunkT
LastChunk(st, r) == (r[2] - 1) \div st.chunkT
\* the region covers chunk k whole, so the chunk is stored without a read
ChunkCovered(st, r, k) == r[1] <= ChunkLo(st, k) /\ ChunkHi(st, k) <= r[2]

AfterWrite == IF cfg.check = "none" THEN "DONE" ELSE "VERIFY"

\* to_zarr is called: xarray validates the region against the store
WriteBegin(w) ==
    /\ th[w].pc = "WRITE"
    /\ th[w].op = "write_region"
    /\ IsNone(th[w].ci)
    /\ LET t == [th[w] EXCEPT !.writes = @ + 1, !.lost = FALSE]
           r == Get(t.region)
       IN  IF RegionFits(store, t.ds, r)
           THEN /\ th' = [th EXCEPT ![w] =
                       [t EXCEPT !.ci = Some(FirstChunk(store, r))]]
                /\ UNCHANGED retried
           ELSE Caught(w, t, "ValueError")
    /\ UNCHANGED << cfg, store, opsLeft, tpl, adv, pk, chk, lay >>

\* a chunk the region covers only in part is read before it is modified
ChunkRead(w) ==
    /\ th[w].pc = "WRITE"
    /\ th[w].op = "write_region"
    /\ ~IsNone(th[w].ci)
    /\ IsNone(th[w].buf)
    /\ LET k == Get(th[w].ci)
           lo == ChunkLo(store, k)
           hi == ChunkHi(store, k)
       IN  /\ ~ChunkCovered(store, Get(th[w].region), k)
           /\ th' = [th EXCEPT ![w].buf =
                   Some([i \in 1..(hi - lo) |-> store.cells[lo + i]])]
    /\ UNCHANGED << cfg, store, retried, opsLeft, tpl, adv, pk, chk, lay >>

\* a variant of the chunk store that fills only the cells that are missing in
\* the archive and keeps the others
StoreChunkKeeping(w, d) ==
    /\ th[w].pc = "WRITE"
    /\ th[w].op = "write_region"
    /\ ~IsNone(th[w].ci)
    /\ LET t == th[w]
           r == Get(t.region)
           k == Get(t.ci)
           lo == ChunkLo(store, k)
           hi == ChunkHi(store, k)
           new(i) == IF r[1] < i /\ i <= r[2] /\ store.cells[i].miss
                     THEN IF i = d THEN NaN
                          ELSE EncodeCell(store, t.ds.vals[i - r[1]])
                     ELSE store.cells[i]
       IN  /\ ChunkCovered(store, r, k) \/ ~IsNone(t.buf)
           /\ d # 0 => /\ lo < d /\ d <= hi /\ r[1] < d /\ d <= r[2]
                       /\ ~t.ds.vals[d - r[1]].miss
           /\ store' = [store EXCEPT
                   !.cells = [i \in 1..Len(@) |->
                                 IF lo < i /\ i <= hi THEN new(i) ELSE @[i]],
                   !.written = @ \cup {k}]
           /\ th' = [th EXCEPT ![w] =
                   [t EXCEPT !.buf = None,
                             !.lost = @ \/ d # 0,
                             !.ci = IF k = LastChunk(store, r) THEN None
                                    ELSE Some(k + 1),
                             !.pc = IF k = LastChunk(store, r) THEN AfterWrite
                                    ELSE "WRITE"]]
    /\ UNCHANGED << cfg, retried, opsLeft, tpl, adv, pk, chk, lay >>

\* the chunk is stored whole: the region's cells from the dataset (cell d,
\* if any, lost by the store), the others as they were read
StoreChunk(w, d) ==
    /\ th[w].pc = "WRITE"
    /\ th[w].op = "write_region"
    /\ ~IsNone(th[w].ci)
    /\ LET t == th[w]
           r == Get(t.region)
           k == Get(t.ci)
           lo == ChunkLo(store, k)
           hi == ChunkHi(store, k)
           new(i) == IF r[1] < i /\ i <= r[2]
                     THEN IF i = d THEN NaN
                          ELSE EncodeCell(store, t.ds.vals[i - r[1]])
                     ELSE Get(t.buf)[i - lo]
       IN  /\ ChunkCovered(store, r, k) \/ ~IsNone(t.buf)
           /\ d # 0 => /\ lo < d /\ d <= hi /\ r[1] < d /\ d <= r[2]
                       /\ ~t.ds.vals[d - r[1]].miss
           /\ store' = [store EXCEPT
                   !.cells = [i \in 1..Len(@) |->
                                 IF lo < i /\ i <= hi THEN new(i) ELSE @[i]],
                   !.written = @ \cup {k}]
           /\ th' = [th EXCEPT ![w] =
                   [t EXCEPT !.buf = None,
                             !.lost = @ \/ d # 0,
                             !.ci = IF k = LastChunk(store, r) THEN None
                                    ELSE Some(k + 1),
                             !.pc = IF k = LastChunk(store, r) THEN AfterWrite
                                    ELSE "WRITE"]]
    /\ UNCHANGED << cfg, retried, opsLeft, tpl, adv, pk, chk, lay >>

ChunkWrite(w) == StoreChunk(w, 0)

\* the store loses one cell of the chunk: it reads back missing
ChunkWriteDrops(w) ==
    /\ cfg.faults
    /\ \E d \in 1..Len(store.cells) : StoreChunk(w, d)

\* ------------------------------------------------- WRITE (convert, append)
ChunksOf(n, c) == IF n = 0 THEN {} ELSE 0..((n - 1) \div c)

ConfiguredChunk(n) ==
    IF IsNone(ChunkingTime) THEN Max(1, n) ELSE Max(1, Min(Get(ChunkingTime), n))

\* the archive to_zarr(mode="w") creates from ds, cell d (if any) lost
ConvertStore(ds, d) ==
    LET st0 == [exists |-> TRUE, axis |-> ds.times, cells |-> << >>,
                lat |-> ds.lat, chunkT |-> ConfiguredChunk(Len(ds.times)),
                filt |-> PackingFilter(ds), range |-> ds.range,
                written |-> {}, madeBy |-> "convert"]
    IN  [st0 EXCEPT
            !.cells = [i \in 1..Len(ds.times) |->
                          IF i = d THEN NaN ELSE EncodeCell(st0, ds.vals[i])],
            !.written = ChunksOf(Len(ds.times), st0.chunkT)]

\* the archive after to_zarr(append_dim=...) of ds, cell d of ds (if any) lost
AppendStore(st, ds, d) ==
    [st EXCEPT
        !.axis = @ \o ds.times,
        !.cells = @ \o [i \in 1..Len(ds.times) |->
                          IF i = d THEN NaN ELSE EncodeCell(st, ds.vals[i])],
        !.written = @ \cup {k \in ChunksOf(Len(st.axis) + Len(ds.times), st.chunkT) :
                                (k + 1) * st.chunkT > Len(st.axis)},
        !.madeBy = "append"]

WholeWrite(w, d) ==
    /\ th[w].pc = "WRITE"
    /\ th[w].op \in {"convert", "append"}
    /\ LET t == [th[w] EXCEPT !.writes = @ + 1, !.lost = d # 0]
       IN  /\ d # 0 => d <= Len(t.ds.times) /\ ~t.ds.vals[d].miss
           /\ IF t.op = "convert"
              THEN /\ store' = ConvertStore(t.ds, d)
                   /\ th' = [th EXCEPT ![w] = [t EXCEPT !.pc = AfterWrite]]
                   /\ UNCHANGED retried
              ELSE IF t.ds.lat = store.lat /\ store.exists
              THEN /\ store' = AppendStore(store, t.ds, d)
                   /\ th' = [th EXCEPT ![w] = [t EXCEPT !.pc = AfterWrite]]
                   /\ UNCHANGED retried
              ELSE /\ d = 0
                   /\ Caught(w, t, "ValueError")
                   /\ UNCHANGED store
    /\ UNCHANGED << cfg, opsLeft, tpl, adv, pk, chk, lay >>

ConvertOrAppendWrite(w) == WholeWrite(w, 0)

ConvertOrAppendDrops(w) ==
    /\ cfg.faults
    /\ \E d \in 1..MaxFragLen : WholeWrite(w, d)

\* the store raises a transient error during to_zarr; what was stored stays
WriteRaises(w) ==
    /\ th[w].pc = "WRITE"
    /\ cfg.faults
    /\ IF th[w].op = "write_region"
       THEN /\ ~IsNone(th[w].ci)
            /\ Caught(w, th[w], "OSError")
       ELSE Caught(w, [th[w] EXCEPT !.writes = @ + 1], "OSError")
    /\ UNCHANGED << cfg, store, opsLeft, tpl, adv, pk, chk, lay >>

\* the writing process is killed part-way through its write
Kill(w) ==
    /\ th[w].pc = "WRITE"
    /\ cfg.faults
    /\ th[w].op = "write_region"
    /\ ~IsNone(th[w].ci)
    /\ th' = [th EXCEPT ![w] = [@ EXCEPT !.pc = "KILLED", !.ci = None,
                                        !.buf = None]]
    /\ UNCHANGED << cfg, store, retried, opsLeft, tpl, adv, pk, chk, lay >>

\* ------------------------------------------------------------------ VERIFY
HasDup(s) == \E i, j \in 1..Len(s) : i # j /\ s[i] = s[j]

\* a variant that also reports any missing cell anywhere in the archive
MasksDifferAnyMissing(st, ds, region) ==
    \/ \E i \in 1..Len(st.cells) : st.cells[i].miss
    \/ \E k \in 1..Len(ds.times) : ds.vals[k].miss

\* what _has_missing computes once the store is open: the missingness masks
\* of the store (inside region, when given) and of the input differ at some
\* label both have; aligning on a duplicated label raises, which
\* _has_missing turns into False
MasksDiffer(st, ds, region) ==
    LET lo == IF IsNone(region) THEN 0 ELSE Get(region)[1]
        hi == IF IsNone(region) THEN Len(st.axis)
              ELSE Min(Get(region)[2], Len(st.axis))
        n == hi - lo
        same == /\ n = Len(ds.times)
                /\ \A k \in 1..n : st.axis[lo + k] = ds.times[k]
    IN  IF same
        THEN \E k \in 1..n : st.cells[lo + k].miss # ds.vals[k].miss
        ELSE IF \/ HasDup([k \in 1..Max(n, 0) |-> st.axis[lo + k]])
                \/ HasDup(ds.times)
        THEN FALSE
        ELSE \E i \in (lo + 1)..hi : \E k \in 1..Len(ds.times) :
                /\ st.axis[i] = ds.times[k]
                /\ st.cells[i].miss # ds.vals[k].miss

\* ZarrConverter._has_missing
HasMissing(st, ds, region) ==
    IF cfg.check = "none" THEN FALSE ELSE MasksDiffer(st, ds, region)

DoVerify(w) ==
    /\ th[w].pc = "VERIFY"
    /\ IF HasMissing(store, th[w].ds, th[w].region)
       THEN Regressed(w, th[w])
       ELSE /\ th' = [th EXCEPT ![w].pc = "DONE"]
            /\ UNCHANGED retried
    /\ UNCHANGED << cfg, store, opsLeft, tpl, adv, pk, chk, lay >>

\* a variant in which a verification that cannot run counts as a regression
VerifyRaisesRegressed(w) ==
    /\ th[w].pc = "VERIFY"
    /\ cfg.faults
    /\ Regressed(w, [th[w] EXCEPT !.vfail = @ + 1])
    /\ UNCHANGED << cfg, store, opsLeft, tpl, adv, pk, chk, lay >>

\* re-opening the store inside _has_missing raises: logged, False returned
VerifyRaises(w) ==
    /\ th[w].pc = "VERIFY"
    /\ cfg.faults
    /\ th' = [th EXCEPT ![w] = [@ EXCEPT !.pc = "DONE", !.vfail = @ + 1]]
    /\ UNCHANGED << cfg, store, retried, opsLeft, tpl, adv, pk, chk, lay >>

\* a variant in which the loop continues at the write
DoRetryToWrite(w) ==
    /\ th[w].pc = "RETRY"
    /\ th' = [th EXCEPT ![w].pc = "WRITE"]
    /\ UNCHANGED << cfg, store, retried, opsLeft, tpl, adv, pk, chk, lay >>

\* RETRY: time.sleep(0.1 * retried_on_missing) is over, the loop continues
DoRetry(w) ==
    /\ th[w].pc = "RETRY"
    /\ th' = [th EXCEPT ![w].pc = "OPEN"]
    /\ UNCHANGED << cfg, store, retried, opsLeft, tpl, adv, pk, chk, lay >>

\* ------------------------------------------------------- the controller spec
NoTpl == [calls |-> 0, out |-> "none", sample |-> EmptyDs, start |-> None,
          end |-> None, freq |-> None, compute |-> FALSE, used |-> None]

\* a fragment of n daily entries from day t0; the first cell is missing when
\* nanFirst, every other cell holds v
Fragment(t0, n, v, nanFirst, lat) ==
    Dataset([i \in 1..n |-> t0 + i - 1],
            [i \in 1..n |-> IF nanFirst /\ i = 1 THEN NaN ELSE Num(v)],
            lat, Some(<< 0, 2 >>))

CtlSample == Fragment(0, 2, 1, FALSE, 1)

Config(retries, check, packing, chunkTime, faults, threads) ==
    [retries |-> retries, check |-> check, packing |-> packing,
     chunkTime |-> chunkTime, freq |-> None, gstart |-> None, gend |-> None,
     faults |-> faults, threads |-> threads]

CtlConfigs ==
    {Config(n, c, 0, Some(2), TRUE, {1}) :
        n \in 0..MaxRetries, c \in {"all", "none"}}
    \cup {Config(0, "all", PackBits, Some(2), TRUE, {1})}

\* input files of write_region: inside, partly outside and wholly outside the
\* template's extent, and one with another extent length
RegionFrags ==
    {Fragment(t0, n, 1, nf, 1) :
        t0 \in 0..(MaxEnd + 1), n \in 1..MaxFragLen, nf \in BOOLEAN}
    \cup {Fragment(0, 1, 1, FALSE, 2)}

\* input files of convert and append
WholeFrags ==
    {Fragment(MaxEnd + 1, n, 1, nf, 1) : n \in {MaxFragLen}, nf \in BOOLEAN}
    \cup {Fragment(0, 1, 1, FALSE, 2)}

Init ==
    /\ cfg \in CtlConfigs
    /\ store = NoStore
    /\ th = [w \in Threads |-> IdleThread(w)]
    /\ retried = [i \in Threads |-> 0]
    /\ opsLeft = MaxOps
    /\ tpl = NoTpl
    /\ adv = NoAdvice
    /\ pk = NoPacker
    /\ chk = NoCheck
    /\ lay = NoLayout

CallCreateTemplate ==
    \E w \in Threads : CreateTemplate(w, CtlSample, Some(0), Some(MaxEnd), None, FALSE)
CallWriteRegion ==
    \E w \in Threads : \E f \in RegionFrags : Call(w, "write_region", f)
CallConvert == \E w \in Threads : \E f \in WholeFrags : Call(w, "convert", f)
CallAppend == \E w \in Threads : \E f \in WholeFrags : Call(w, "append", f)

\* the steps of an invocation once it was called
Step(w) ==
    \/ DoOpen(w)
    \/ DoProcess(w)
    \/ DoLocate(w)
    \/ WriteBegin(w)
    \/ ChunkRead(w)
    \/ ChunkWrite(w)
    \/ ConvertOrAppendWrite(w)
    \/ DoVerify(w)
    \/ DoRetry(w)

\* what the environment does to an invocation
Fault(w) ==
    \/ OpenRaises(w)
    \/ ChunkWriteDrops(w)
    \/ ConvertOrAppendDrops(w)
    \/ WriteRaises(w)
    \/ VerifyRaises(w)
    \/ Kill(w)

Next ==
    \/ CallCreateTemplate
    \/ CallWriteRegion
    \/ CallConvert
    \/ CallAppend
    \/ \E w \in Threads : Step(w)
    \/ \E w \in Threads : Fault(w)

Spec == Init /\ [][Next]_vars

\* ---------------------------------------------------- the locator spec
\* n entries from t0, step apart, every cell 1
Series(t0, n, step) ==
    Dataset([i \in 1..n |-> t0 + (i - 1) * step],
            [i \in 1..n |-> Num(1)], 1, None)

\* sorted archive axes: regular ones, one with gaps, one with repeated entries
LocAxes ==
    {DateRange(1, n, f) : n \in 1..LocAxisMax, f \in {1, 2}}
    \cup {<< 1, 2, 4, 7 >>, << 1, 1, 2, 2, 3 >>}

LocFrags ==
    {Series(t0, n, step) :
        t0 \in 0..(LocAxisMax + 2), n \in 1..LocFragLen, step \in {1, 3}}

\* an archive with the given axis, and an invocation of write_region that is
\* about to locate its fragment
LocInit ==
    /\ cfg = Config(0, "all", 0, None, FALSE, {1})
    /\ \E a \in LocAxes : \E n \in 1..2 :
          store = [NoStore EXCEPT !.exists = TRUE, !.axis = a,
                                  !.cells = [i \in 1..Len(a) |-> NaN],
                                  !.lat = n, !.chunkT = Max(1, Len(a)),
                                  !.madeBy = "create_template"]
    /\ \E f \in LocFrags :
          th = [w \in Threads |->
                  IF w = 1
                  THEN [IdleThread(w) EXCEPT !.pc = "LOCATE",
                                             !.op = "write_region",
                                             !.frag = f, !.ds = f,
                                             !.attempts = 1]
                  ELSE IdleThread(w)]
    /\ retried = [i \in Threads |-> 0]
    /\ opsLeft = 0
    /\ tpl = NoTpl
    /\ adv = NoAdvice
    /\ pk = NoPacker
    /\ chk = NoCheck
    /\ lay = NoLayout

LocNext == \E w \in Threads : DoLocate(w)

LocSpec == LocInit /\ [][LocNext]_vars

\* --------------------------------------------------- the template spec
TplConfigs ==
    {[Config(0, "all", p, c, FALSE, {1}) EXCEPT
         !.freq = f, !.gstart = gs, !.gend = ge] :
        p \in {0, PackBits}, c \in {None, Some(3)}, f \in {None, Some(2)},
        gs \in {None}, ge \in {None, Some(TplEndMax)}}

TplSamples ==
    {[Series(t0, n, step) EXCEPT !.range = r] :
        t0 \in {1}, n \in 0..3, step \in {1, 2},
        r \in {None, Some(<< 0, 2 >>)}}

TplInit ==
    /\ cfg \in TplConfigs
    /\ store = NoStore
    /\ th = [w \in Threads |-> IdleThread(w)]
    /\ retried = [i \in Threads |-> 0]
    /\ opsLeft = 0
    /\ tpl = NoTpl
    /\ adv = NoAdvice
    /\ pk = NoPacker
    /\ chk = NoCheck
    /\ lay = NoLayout

\* one create_template call per behaviour
TplNext ==
    /\ tpl.calls = 0
    /\ \E sample \in TplSamples :
       \E gs \in {None, Some(1), Some(2)} :
       \E ge \in {None} \cup {Some(e) : e \in 0..TplEndMax} :
       \E f \in {None, Some(1), Some(2), Some(3)} :
       \E b \in BOOLEAN :
           \/ CreateTemplate(1, sample, gs, ge, f, b)
           \/ CreateTemplateCommand(1, sample, gs, ge, f, b)

TplSpec == TplInit /\ [][TplNext]_vars

\* ------------------------------------------------- the parallel-writers spec
\* independent writers (one converter each), no storage faults; the archive
\* is the template over days 0..MaxEnd
ParConfigs ==
    {Config(n, "all", 0, c, FALSE, {1, 2}) :
        n \in {0, 1}, c \in {None, Some(1), Some(2)}}

ParInit ==
    /\ cfg \in ParConfigs
    /\ store = TemplateStore(CtlSample, DateRange(0, MaxEnd, 1))
    /\ th = [w \in Threads |-> IdleThread(w)]
    /\ retried = [i \in Threads |-> 0]
    /\ opsLeft = 2
    /\ tpl = [NoTpl EXCEPT !.calls = 1, !.out = "ok", !.sample = CtlSample,
                           !.start = Some(0), !.end = Some(MaxEnd),
                           !.used = Some(DefaultFreq)]
    /\ adv = NoAdvice
    /\ pk = NoPacker
    /\ chk = NoCheck
    /\ lay = NoLayout

\* the callers' partition of the sequence axis: writer 1 has day 0, writer 2
\* the days from 1
ParFrags(w) ==
    IF w = 1 THEN {Fragment(0, 1, 1, FALSE, 1)}
    ELSE {Fragment(t0, n, 2, FALSE, 1) :
             t0 \in 1..2, n \in 1..MaxFragLen}

ParCall ==
    \E w \in Threads : \E f \in ParFrags(w) :
        /\ th[w].pc = "idle"
        /\ Call(w, "write_region", f)

ParStep == \E w \in Threads : DoOpen(w) \/ DoProcess(w) \/ DoLocate(w)
                \/ WriteBegin(w) \/ ChunkRead(w) \/ ChunkWrite(w)
                \/ DoVerify(w) \/ DoRetry(w)

ParNext == ParCall \/ ParStep

ParSpec == ParInit /\ [][ParNext]_vars

\* ------------------------------------------------------ the fair spec
\* the controller is synchronous: once called, an invocation that is not
\* killed keeps taking its steps
LiveNext ==
    \/ CallCreateTemplate
    \/ CallWriteRegion
    \/ CallConvert
    \/ CallAppend
    \/ \E w \in Threads : Step(w)
    \/ \E w \in Threads : OpenRaises(w) \/ ChunkWriteDrops(w)
                            \/ ConvertOrAppendDrops(w) \/ WriteRaises(w)
                            \/ VerifyRaises(w)

\* any configuration, a template or none, and LiveOps public operations
LiveInit ==
    /\ cfg \in CtlConfigs
    /\ store = NoStore
    /\ th = [w \in Threads |-> IdleThread(w)]
    /\ retried = [i \in Threads |-> 0]
    /\ opsLeft = LiveOps
    /\ tpl = NoTpl
    /\ adv = NoAdvice
    /\ pk = NoPacker
    /\ chk = NoCheck
    /\ lay = NoLayout

FairSpec ==
    /\ LiveInit
    /\ [][LiveNext]_vars
    /\ \A w \in Threads : WF_vars(Step(w))

\* ------------------------------------------------------ the backoff spec
\* one public operation on a converter with a larger retry budget
BackoffInit ==
    /\ cfg = Config(BackoffRetries, "all", 0, Some(2), TRUE, {1})
    /\ store = NoStore
    /\ th = [w \in Threads |-> IdleThread(w)]
    /\ retried = [i \in Threads |-> 0]
    /\ opsLeft = 1
    /\ tpl = NoTpl
    /\ adv = NoAdvice
    /\ pk = NoPacker
    /\ chk = NoCheck
    /\ lay = NoLayout

BackoffSpec == BackoffInit /\ [][Next]_vars

\* ------------------------------------------ two invocations, one instance
\* two threads call write_region on the same ZarrConverter: both invocations
\* use the retried_on_missing attribute of instance 1
SharedConfigs ==
    {Config(1, "all", 0, c, TRUE, {1, 2}) : c \in {Some(1), Some(2)}}

SharedInit ==
    /\ cfg \in SharedConfigs
    /\ store = TemplateStore(CtlSample, DateRange(0, MaxEnd, 1))
    /\ th = [w \in Threads |-> IdleThread(1)]
    /\ retried = [i \in Threads |-> 0]
    /\ opsLeft = 2
    /\ tpl = [NoTpl EXCEPT !.calls = 1, !.out = "ok", !.sample = CtlSample,
                           !.start = Some(0), !.end = Some(MaxEnd),
                           !.used = Some(DefaultFreq)]
    /\ adv = NoAdvice
    /\ pk = NoPacker
    /\ chk = NoCheck
    /\ lay = NoLayout

SharedStep ==
    \E w \in Threads : DoOpen(w) \/ DoProcess(w) \/ DoLocate(w)
        \/ WriteBegin(w) \/ ChunkRead(w) \/ ChunkWrite(w)
        \/ DoVerify(w) \/ DoRetry(w)

SharedFault == \E w \in Threads : WriteRaises(w) \/ ChunkWriteDrops(w)

SharedNext == ParCall \/ SharedStep \/ SharedFault

SharedSpec == SharedInit /\ [][SharedNext]_vars

\* ------------------------------------------- the variables _has_missing checks
DataVars == {"hs", "tp", "dpm"}

\* missing_check_vars: not set (None or an empty list), "all", a list of
\* names, or a value of another type
CheckSpecs ==
    {[kind |-> "disabled", names |-> {}], [kind |-> "all", names |-> {}],
     [kind |-> "other", names |-> {}]}
    \cup {[kind |-> "list", names |-> S] : S \in (SUBSET DataVars) \ {{}}}

\* the variables the configuration selects for the check
CheckedVars(check, storeVars) ==
    IF check.kind = "all" THEN storeVars
    ELSE IF check.kind = "list" THEN check.names
    ELSE {}

\* store_dset[missing_check_vars] or input_dataset[missing_check_vars] raises
\* KeyError: a selected variable is not in the archive or not in the input
SelectionRaises(check, storeVars, inVars) ==
    ~(CheckedVars(check, storeVars) \subseteq (storeVars \cap inVars))

\* the variables whose masks _has_missing compares
ComparedVars(check, storeVars, inVars) ==
    IF SelectionRaises(check, storeVars, inVars) THEN {}
    ELSE CheckedVars(check, storeVars)

\* _has_missing(zarr_path, input_dataset, region) on an archive with the data
\* variables storeVars and an input with inVars, the variables that were
\* written; differ: the variables whose missingness masks differ
HasMissingOf(check, storeVars, inVars, differ) ==
    /\ chk.pc = "idle"
    /\ chk' = [pc |-> "checked", check |-> check, storeVars |-> storeVars,
               inVars |-> inVars, differ |-> differ,
               compared |-> ComparedVars(check, storeVars, inVars),
               result |-> ComparedVars(check, storeVars, inVars) \cap differ
                              # {}]
    /\ UNCHANGED << cfg, store, th, retried, opsLeft, tpl, adv, pk, lay >>

ChkInit ==
    /\ cfg = Config(0, "all", 0, None, FALSE, {1})
    /\ store = NoStore
    /\ th = [w \in Threads |-> IdleThread(w)]
    /\ retried = [i \in Threads |-> 0]
    /\ opsLeft = 0
    /\ tpl = NoTpl
    /\ adv = NoAdvice
    /\ pk = NoPacker
    /\ chk = NoCheck
    /\ lay = NoLayout

ChkNext ==
    \E check \in CheckSpecs :
    \E storeVars \in (SUBSET DataVars) \ {{}} :
    \E inVars \in (SUBSET storeVars) \ {{}} :
    \E differ \in SUBSET (storeVars \cap inVars) :
        HasMissingOf(check, storeVars, inVars, differ)

ChkSpec == ChkInit /\ [][ChkNext]_vars

\* ---------------------------------------------------------- chunk layout
\* length of every dimension of the datasets laid out here
LayoutLen == 4

\* the dimensions of the variables: the sequence dimension and three others
LayoutDims == {"time", "lat", "lon", "depth"}

\* the chunking section of a configuration: a chunk length, or none, for each
\* dimension name ({"time": 200, "lat": 75, "depth": 20} in the example)
ChunkingConfigs == [LayoutDims -> {None} \cup {Some(c) : c \in 2..(LayoutLen - 1)}]

\* _chunking_config_to_dict: the entries for time, lat and lon that are set
ChunkingConfigToDict(chunking) ==
    [d \in {k \in {"time", "lat", "lon"} : ~IsNone(chunking[k])}
        |-> Get(chunking[d])]

\* the chunk length _create_hindcast_template gives dimension d of a variable
\* whose prior chunking is prior (None: a variable that is not chunked)
TemplateChunk(chunking, d, prior) ==
    LET chunking_dict == ChunkingConfigToDict(chunking) IN
    IF d \in DOMAIN chunking_dict THEN chunking_dict[d]
    ELSE IF ~IsNone(prior) THEN Get(prior)
    ELSE LayoutLen

\* the chunk length of dimension d after ds.chunk(chunking_dict), which
\* convert, append and write_region apply before to_zarr
WriteChunk(chunking, d, prior) ==
    LET chunking_dict == ChunkingConfigToDict(chunking) IN
    IF d \in DOMAIN chunking_dict THEN chunking_dict[d]
    ELSE IF ~IsNone(prior) THEN Get(prior)
    ELSE LayoutLen

\* create_template lays out the variables of the skeleton
BuildTemplateLayout(chunking, prior) ==
    /\ lay.pc = "idle"
    /\ lay' = [pc |-> "laid", op |-> "create_template",
               chunking |-> chunking, prior |-> prior,
               chunks |-> [d \in LayoutDims |-> TemplateChunk(chunking, d, prior)]]
    /\ UNCHANGED << cfg, store, th, retried, opsLeft, tpl, adv, pk, chk >>

\* a writer chunks its dataset
WriteLayout(op, chunking, prior) ==
    /\ lay.pc = "idle"
    /\ lay' = [pc |-> "laid", op |-> op,
               chunking |-> chunking, prior |-> prior,
               chunks |-> [d \in LayoutDims |-> WriteChunk(chunking, d, prior)]]
    /\ UNCHANGED << cfg, store, th, retried, opsLeft, tpl, adv, pk, chk >>

LayInit ==
    /\ cfg = Config(0, "all", 0, None, FALSE, {1})
    /\ store = NoStore
    /\ th = [w \in Threads |-> IdleThread(w)]
    /\ retried = [i \in Threads |-> 0]
    /\ opsLeft = 0
    /\ tpl = NoTpl
    /\ adv = NoAdvice
    /\ pk = NoPacker
    /\ chk = NoCheck
    /\ lay = NoLayout

LayNext ==
    \E chunking \in ChunkingConfigs : \E prior \in {None, Some(1)} :
        \/ BuildTemplateLayout(chunking, prior)
        \/ \E op \in {"convert", "append", "write_region"} :
               WriteLayout(op, chunking, prior)

LaySpec == LayInit /\ [][LayNext]_vars

\* ------------------------------------------------------------------ Packer
BitsTried == {0, 7, 8, 10, 16, 24, 32, 33, 64}

\* a variant of the check that accepts every whole number of bytes
AcceptsBitsWholeBytes(nbits) == nbits > 0 /\ nbits % 8 = 0

\* if nbits not in [8, 16, 32]: raise ValueError
AcceptsBits(nbits) == nbits \in {8, 16, 32}

\* Packer(nbits)
NewPacker(nbits) ==
    /\ pk.pc = "none"
    /\ pk' = IF AcceptsBits(nbits)
             THEN [pc |-> "packer", zarr |-> pk.zarr, asked |-> nbits,
                   nbits |-> nbits, out |-> None]
             ELSE [pc |-> "ValueError", zarr |-> pk.zarr, asked |-> nbits]
    /\ UNCHANGED << cfg, store, th, retried, opsLeft, tpl, adv, chk, lay >>

\* a variant of the scale that divides by 2^nbits
ScaleFactorPow(vmin, vmax, nbits) ==
    IF vmax = vmin THEN Frac(1, 1) ELSE Frac(vmax - vmin, Pow2(nbits))

\* scale_factor of compute_scale_and_offset, as a fraction
ScaleFactor(vmin, vmax, nbits) ==
    IF vmax = vmin THEN Frac(1, 1) ELSE Frac(vmax - vmin, Pow2(nbits) - 1)

\* offset = vmin + 2 ** (nbits - 1) * scale_factor
Offset(vmin, nbits, scale) ==
    Frac(vmin * scale.den + Pow2(nbits - 1) * scale.num, scale.den)

\* packer.compute_scale_and_offset(vmin, vmax)
ComputeScaleAndOffset(vmin, vmax) ==
    /\ pk.pc = "packer" /\ IsNone(pk.out)
    /\ pk.nbits <= ScaleBitsMax
    /\ LET scale == ScaleFactor(vmin, vmax, pk.nbits) IN
       pk' = [pk EXCEPT !.out = Some([op |-> "compute_scale_and_offset",
                                      vmin |-> vmin, vmax |-> vmax,
                                      scale |-> scale,
                                      offset |-> Offset(vmin, pk.nbits, scale)])]
    /\ UNCHANGED << cfg, store, th, retried, opsLeft, tpl, adv, chk, lay >>

\* the data variables of the datasets setup_encoding is tried on
PackVars == {"temperature", "pressure"}

\* a data variable: in the dataset or not, numeric or not, with or without
\* its valid_min and valid_max attributes
PackVarKinds ==
    [present : BOOLEAN, numeric : BOOLEAN,
     vmin : {None, Some(0)}, vmax : {None, Some(MaxValid)}]

\* a variant that packs every data variable, whatever was asked for
SelectedEverything(ds, variables) == {v \in PackVars : ds[v].present}

\* the variables to pack: the list given, or every numeric data variable
Selected(ds, variables) ==
    IF IsNone(variables)
    THEN {v \in PackVars : ds[v].present /\ ds[v].numeric}
    ELSE Get(variables)

\* if vmin is not None and vmax is not None
HasValidRange(var) == ~IsNone(var.vmin) /\ ~IsNone(var.vmax)

\* the encoding entry of a packed variable: one FixedScaleOffset filter
PackEntry(var, nbits) ==
    [filters |-> << [codec |-> "FixedScaleOffset",
                     num |-> ScaleNum(Get(var.vmin), Get(var.vmax)),
                     den |-> ScaleDen(Get(var.vmin), Get(var.vmax), nbits),
                     astype |-> nbits] >>,
     dtype |-> "float32"]

\* the dictionary setup_encoding returns
PackEncoding(ds, variables, nbits, zarrAvailable) ==
    IF ~zarrAvailable THEN [v \in {} |-> None]
    ELSE [v \in {w \in Selected(ds, variables) :
                    ds[w].present /\ HasValidRange(ds[w])}
            |-> PackEntry(ds[v], nbits)]

\* packer.setup_encoding(ds, variables)
SetupEncoding(ds, variables) ==
    /\ pk.pc = "packer" /\ IsNone(pk.out)
    /\ pk.nbits <= ScaleBitsMax
    /\ pk' = [pk EXCEPT !.out = Some([op |-> "setup_encoding", ds |-> ds,
                 variables |-> variables,
                 encoding |-> PackEncoding(ds, variables, pk.nbits, pk.zarr)])]
    /\ UNCHANGED << cfg, store, th, retried, opsLeft, tpl, adv, chk, lay >>

\* --------------------------------------------------------- the packer spec
PackInit ==
    /\ cfg = Config(0, "all", 0, None, FALSE, {1})
    /\ store = NoStore
    /\ th = [w \in Threads |-> IdleThread(w)]
    /\ retried = [i \in Threads |-> 0]
    /\ opsLeft = 0
    /\ tpl = NoTpl
    /\ adv = NoAdvice
    /\ pk \in {[NoPacker EXCEPT !.zarr = b] : b \in BOOLEAN}
    /\ chk = NoCheck
    /\ lay = NoLayout

PackNext ==
    \/ \E nbits \in BitsTried : NewPacker(nbits)
    \/ \E vmin \in (0 - MaxValid)..MaxValid :
       \E vmax \in (0 - MaxValid)..MaxValid :
           ComputeScaleAndOffset(vmin, vmax)
    \/ \E ds \in [PackVars -> PackVarKinds] :
       \E variables \in {None} \cup {Some(S) : S \in SUBSET PackVars} :
           SetupEncoding(ds, variables)

PackSpec == PackInit /\ [][PackNext]_vars

\* ----------------------------------------------------------- Chunk Advisor
DimNames == {"time", "lat", "lon"}
SequenceDim == "time"
AccessPatterns == {"temporal", "spatial", "balanced"}
DtypeSizes == {1, 4}

\* realized byte size of a plan: product of the chunk lengths times the
\* element size
PlanBytes(chunks, dtype) ==
    chunks["time"] * chunks["lat"] * chunks["lon"] * dtype

\* one shrink of a chunk length: half of it, never below 1
Halve(c) == (c + 1) \div 2

\* the dimensions a pattern shrinks first: temporal keeps the sequence
\* dimension long, spatial the extent dimensions, balanced none
ShrinkFirst(pattern) ==
    IF pattern = "temporal" THEN DimNames \ {SequenceDim}
    ELSE IF pattern = "spatial" THEN {SequenceDim}
    ELSE DimNames

DimRank(d) == IF d = "time" THEN 1 ELSE IF d = "lat" THEN 2 ELSE 3

\* the longest chunk among the dimensions ds, the first of them on a tie
Longest(chunks, ds) ==
    CHOOSE d \in ds :
        \A e \in ds : \/ chunks[e] < chunks[d]
                      \/ (chunks[e] = chunks[d] /\ DimRank(d) <= DimRank(e))

\* the dimension the loop shrinks next (some chunk is longer than 1)
NextToShrink(chunks, pattern) ==
    LET pref == {d \in ShrinkFirst(pattern) : chunks[d] > 1}
        rest == {d \in DimNames : chunks[d] > 1}
    IN  Longest(chunks, IF pref # {} THEN pref ELSE rest)

\* a variant of the loop test that aims at half the budget
MustShrinkToHalf(a) ==
    /\ 2 * PlanBytes(a.chunks, a.dtype) > a.target
    /\ \E d \in DimNames : a.chunks[d] > 1

\* a variant of the loop test that counts elements instead of bytes
MustShrinkElements(a) ==
    /\ PlanBytes(a.chunks, 1) > a.target
    /\ \E d \in DimNames : a.chunks[d] > 1

\* the loop goes on: over budget and something left to shrink
MustShrink(a) ==
    /\ PlanBytes(a.chunks, a.dtype) > a.target
    /\ \E d \in DimNames : a.chunks[d] > 1

\* recommend(dimensions, dtype_size_bytes, access_pattern, target): the plan
\* starts at the full dimension lengths; a dimension of length zero is a
\* PlanningError
Recommend(dims, dtype, pattern, target) ==
    /\ adv.pc \in {"idle", "done", "PlanningError"}
    /\ adv' = [pc |-> IF \E d \in DimNames : dims[d] < 1
                      THEN "PlanningError" ELSE "shrink",
               dims |-> dims, dtype |-> dtype, pattern |-> pattern,
               target |-> target, chunks |-> dims, steps |-> 0,
               warnings |-> {},
               prev |-> IF adv.pc = "done" THEN Some(adv.chunks) ELSE None]
    /\ UNCHANGED << cfg, store, th, retried, opsLeft, tpl, pk, chk, lay >>

ShrinkStep ==
    /\ adv.pc = "shrink"
    /\ MustShrink(adv)
    /\ LET d == NextToShrink(adv.chunks, adv.pattern) IN
       adv' = [adv EXCEPT !.chunks[d] = Halve(@), !.steps = @ + 1]
    /\ UNCHANGED << cfg, store, th, retried, opsLeft, tpl, pk, chk, lay >>

\* the plan is returned; the floor case is reported as a warning
RecommendReturns ==
    /\ adv.pc = "shrink"
    /\ ~MustShrink(adv)
    /\ adv' = [adv EXCEPT
                 !.pc = "done",
                 !.warnings = IF PlanBytes(adv.chunks, adv.dtype) > adv.target
                              THEN {"floor"} ELSE {}]
    /\ UNCHANGED << cfg, store, th, retried, opsLeft, tpl, pk, chk, lay >>

\* --------------------------------------------------------- validate_chunks
LowFloor == 1048576        \* 1 MiB
HighCeiling == 104857600   \* 100 MiB
LargeDimLen == 100         \* a dimension from this length on is large

\* chunk and dimension lengths the validation is tried on: byte sizes fall
\* below, on and above both thresholds
ValLens == {1, 400, 512}
ValDtypeSizes == {1, 4, 8}

\* a variant of the classification that counts a plan on the floor as small
\* and a plan on the ceiling as large
ValidateWarningsInclusive(plan, dims, dtype) ==
    [small |-> PlanBytes(plan, dtype) <= LowFloor,
     large |-> PlanBytes(plan, dtype) >= HighCeiling,
     granular |-> {d \in DimNames : plan[d] = 1 /\ dims[d] >= LargeDimLen}]

\* the warnings of a user plan
ValidateWarnings(plan, dims, dtype) ==
    [small |-> PlanBytes(plan, dtype) < LowFloor,
     large |-> PlanBytes(plan, dtype) > HighCeiling,
     granular |-> {d \in DimNames : plan[d] = 1 /\ dims[d] >= LargeDimLen}]

\* validate_chunks(user_chunks, dimensions, dtype_size_bytes): advisory only,
\* the plan goes back to the caller as it came
ValidateChunks(plan, dims, dtype) ==
    /\ adv.pc = "idle"
    /\ adv' = [pc |-> "validated", plan |-> plan, dims |-> dims,
               dtype |-> dtype, size |-> PlanBytes(plan, dtype),
               warnings |-> ValidateWarnings(plan, dims, dtype),
               planOut |-> plan]
    /\ UNCHANGED << cfg, store, th, retried, opsLeft, tpl, pk, chk, lay >>

\* ------------------------------------------------------- the advisor spec
AdvInit ==
    /\ cfg = Config(0, "all", 0, None, FALSE, {1})
    /\ store = NoStore
    /\ th = [w \in Threads |-> IdleThread(w)]
    /\ retried = [i \in Threads |-> 0]
    /\ opsLeft = 0
    /\ tpl = NoTpl
    /\ adv = NoAdvice
    /\ pk = NoPacker
    /\ chk = NoCheck
    /\ lay = NoLayout

\* one recommendation per behaviour
CallRecommend ==
    /\ adv.pc = "idle"
    /\ \E dims \in [DimNames -> 0..MaxDimLen] :
       \E dtype \in DtypeSizes : \E pattern \in AccessPatterns :
       \E target \in 1..MaxTarget :
           Recommend(dims, dtype, pattern, target)

\* the same recommendation asked a second time
CallRecommendAgain ==
    /\ adv.pc = "done"
    /\ IsNone(adv.prev)
    /\ Recommend(adv.dims, adv.dtype, adv.pattern, adv.target)

CallValidate ==
    /\ adv.pc = "idle"
    /\ \E dims \in [DimNames -> ValLens] : \E plan \in [DimNames -> ValLens] :
       \E dtype \in ValDtypeSizes :
           /\ \A d \in DimNames : plan[d] <= dims[d]
           /\ ValidateChunks(plan, dims, dtype)

AdvNext ==
    \/ CallRecommend
    \/ CallValidate
    \/ CallRecommendAgain
    \/ ShrinkStep
    \/ RecommendReturns

AdvSpec == AdvInit /\ [][AdvNext]_vars

\* ------------------------------------------------------------------ claims
Busy == {"OPEN", "PROCESS", "LOCATE", "WRITE", "VERIFY", "RETRY"}

CheckedOffset(t) ==
    IF t.op = "write_region" THEN Get(t.region)[1]
    ELSE IF t.op = "convert" THEN 0
    ELSE Len(store.axis) - Len(t.ds.times)

\* a cell of the input that is not missing reads back missing from the archive
RegressionIn(t) ==
    \E k \in 1..Len(t.ds.times) :
        /\ CheckedOffset(t) + k \in 1..Len(store.cells)
        /\ ~t.ds.vals[k].miss
        /\ ReadCell(store, CheckedOffset(t) + k).miss

\* C2: on DONE with a missing check active the checked region of the archive
\* has no cell that is missing although the input cell is not.
C2_DoneNoRegression ==
    \A w \in Threads :
        (th[w].pc = "DONE" /\ cfg.check # "none") => ~RegressionIn(th[w])

\* the archive one complete, lossless write_region of t's dataset leaves when
\* started on archive st
RegionWritten(st, t) ==
    LET r == Get(t.region) IN
    [st EXCEPT
        !.cells = [i \in 1..Len(@) |->
                      IF r[1] < i /\ i <= r[2]
                      THEN EncodeCell(st, t.ds.vals[i - r[1]]) ELSE @[i]],
        !.written = @ \cup (FirstChunk(st, r)..LastChunk(st, r))]

\* C5: a write_region that ends in DONE after a lossless last write leaves
\* the archive one complete call leaves, whatever the region held before
\* (also when it repeats a run killed part-way); repeating a complete call
\* with the same fragment leaves the archive as it found it.
C5_Idempotent ==
    \A w \in Threads :
        LET t == th[w] IN
        (t.pc = "DONE" /\ t.op = "write_region" /\ ~t.lost)
            => /\ store = RegionWritten(t.before, t)
               /\ t.rerun = "done" => store = t.before

\* a second complete call with the same fragment, on a region that shares
\* chunks with its neighbours
C5_Witness ==
    \E w \in Threads :
        /\ th[w].pc = "DONE" /\ th[w].op = "write_region" /\ ~th[w].lost
        /\ th[w].rerun = "done"
        /\ th[w].region = Some(<< 1, 3 >>)

\* every cell of the located region that has not regressed reads back with
\* the value the fragment has there
RoundTrip(t) ==
    \A k \in 1..Len(t.ds.times) :
        LET r == ReadCell(store, Get(t.region)[1] + k)
            v == t.ds.vals[k]
        IN  (~v.miss /\ r.miss) \/ SameValue(r, v)

\* C6 as claimed: after create_template and a write_region that reached DONE,
\* the located region reads back the fragment's values exactly, but for
\* regressed cells.
C6_RoundTripAlways ==
    \A w \in Threads :
        (/\ th[w].pc = "DONE" /\ th[w].op = "write_region"
         /\ store.madeBy = "create_template")
            => RoundTrip(th[w])

\* C6 amended: the same, for an archive whose variable carries no packing
\* filter (packing disabled, or no valid_min / valid_max on the sample).
C6_RoundTripUnpacked ==
    \A w \in Threads :
        (/\ th[w].pc = "DONE" /\ th[w].op = "write_region"
         /\ store.madeBy = "create_template" /\ store.filt = 0)
            => RoundTrip(th[w])

C6_Witness ==
    \E w \in Threads :
        /\ th[w].pc = "DONE" /\ th[w].op = "write_region"
        /\ store.madeBy = "create_template" /\ store.filt = 0
        /\ th[w].region = Some(<< 1, 3 >>)
        /\ th[w].ds.vals[1].miss /\ ~th[w].ds.vals[2].miss
        /\ ~store.cells[3].miss

\* times is a contiguous run of entries of axis
ContiguousRun(times, axis) ==
    /\ Len(times) > 0
    /\ \E o \in 0..(Len(axis) - Len(times)) :
          \A k \in 1..Len(times) : axis[o + k] = times[k]

\* C9: on a template-built archive, a write_region whose fragment is a
\* contiguous run of the template axis and has the sample's extent passes
\* the store's shape and chunk validation.
C9_NoStructuralMismatch ==
    \A w \in Threads :
        LET t == th[w] IN
        (/\ t.pc = "WRITE" /\ t.op = "write_region"
         /\ store.madeBy = "create_template"
         /\ ContiguousRun(t.frag.times, store.axis)
         /\ t.frag.lat = tpl.sample.lat)
            => RegionFits(store, t.ds, Get(t.region))

\* such a fragment, not aligned with the chunks, after validation
C9_Witness ==
    \E w \in Threads :
        /\ th[w].pc = "WRITE" /\ th[w].op = "write_region"
        /\ store.madeBy = "create_template"
        /\ th[w].frag.times = << 1, 2 >>
        /\ th[w].ci = Some(0)
        /\ store.chunkT = 2

\* C4: an invocation never makes more than retries_on_missing + 1 attempts,
\* whatever mix of exceptions and regressions it meets, and every invocation
\* that was called ends in DONE or FAILED.
C4_Terminates ==
    \A w \in Threads :
        /\ [](th[w].attempts <= cfg.retries + 1)
        /\ (th[w].pc \in Busy) ~> (th[w].pc \in {"DONE", "FAILED"})

\* an invocation that met an exception and a regression and still ended
C4_Witness ==
    \E w \in Threads :
        /\ th[w].pc = "FAILED" /\ th[w].exc > 0 /\ th[w].regr > 0
        /\ th[w].attempts = cfg.retries + 1

Sorted(a) == \A i, j \in 1..Len(a) : i < j => a[i] <= a[j]

\* the first index (from 0) whose entry is >= v, the length if there is none
FirstAtLeast(a, v) ==
    CHOOSE i \in 0..Len(a) :
        /\ i = Len(a) \/ a[i + 1] >= v
        /\ \A j \in 1..i : a[j] < v

\* the first index (from 0) whose entry is > v, the length if there is none
FirstAbove(a, v) ==
    CHOOSE i \in 0..Len(a) :
        /\ i = Len(a) \/ a[i + 1] > v
        /\ \A j \in 1..i : a[j] <= v

\* C7: on a sorted axis the located sequence interval is [s, e), s the first
\* index whose coordinate is >= the fragment's first, e the first index whose
\* coordinate is > the fragment's last; days 6..10 on the axis 1..10 give
\* [5, 10).
C7_Located ==
    \A w \in Threads :
        LET t == th[w] IN
        (/\ t.pc = "WRITE" /\ t.op = "write_region" /\ ~IsNone(t.region)
         /\ Sorted(store.axis))
            => /\ Get(t.region)[1] = FirstAtLeast(store.axis, t.ds.times[1])
               /\ Get(t.region)[2] =
                      FirstAbove(store.axis, t.ds.times[Len(t.ds.times)])
               /\ (/\ store.axis = DateRange(1, 10, 1)
                   /\ t.ds.times = DateRange(6, 10, 1))
                      => t.region = Some(<< 5, 10 >>)

C7_Witness ==
    \E w \in Threads :
        /\ th[w].pc = "WRITE" /\ th[w].op = "write_region"
        /\ store.axis = DateRange(1, 10, 1)
        /\ th[w].ds.times = DateRange(6, 10, 1)
        /\ th[w].region = Some(<< 5, 10 >>)

\* C8: the locator returns a region only for a fragment all of whose
\* sequence coordinates are entries of the archive's axis.
C8_OutsideRejected ==
    \A w \in Threads :
        LET t == th[w] IN
        (t.pc = "WRITE" /\ t.op = "write_region" /\ ~IsNone(t.region))
            => \A k \in 1..Len(t.ds.times) :
                  \E i \in 1..Len(store.axis) : store.axis[i] = t.ds.times[k]

\* C10: with global_start, global_end and freq given, the template's axis is
\* start, start + freq, ... up to end, every data variable has that length
\* along the sequence dimension, and days 1..10 at daily frequency give 10
\* entries.
C10_TemplateAxis ==
    (tpl.out = "ok" /\ ~IsNone(tpl.start) /\ ~IsNone(tpl.end)
        /\ ~IsNone(tpl.freq))
        => LET gs == Get(tpl.start)
               ge == Get(tpl.end)
               f == Get(tpl.freq)
           IN  /\ Len(store.axis) = IF ge < gs THEN 0 ELSE ((ge - gs) \div f) + 1
               /\ \A i \in 1..Len(store.axis) : store.axis[i] = gs + (i - 1) * f
               /\ Len(store.cells) = Len(store.axis)
               /\ (gs = 1 /\ ge = 10 /\ f = 1) => Len(store.axis) = 10

C10_Witness ==
    /\ tpl.out = "ok"
    /\ tpl.start = Some(1) /\ tpl.end = Some(10) /\ tpl.freq = Some(1)
    /\ Len(store.axis) = 10
    /\ store.written = {}

\* C3: when every writer is done, each writer's region holds that writer's
\* fragment.
C3_RegionsHoldFragments ==
    (\A w \in Threads : th[w].pc = "DONE")
        => \A w \in Threads :
              \A k \in 1..Len(th[w].ds.times) :
                  SameValue(ReadCell(store, Get(th[w].region)[1] + k),
                            th[w].ds.vals[k])

\* C11: the frequency create_template uses is the freq argument, else the
\* configured frequency, else the step between the sample's first two
\* coordinates when it has two, else one day; the axis advances by it.
C11_FreqResolution ==
    tpl.out = "ok" =>
        LET times == tpl.sample.times
            expected == IF tpl.freq # << >> THEN tpl.freq[1]
                        ELSE IF cfg.freq # << >> THEN cfg.freq[1]
                        ELSE IF Len(times) >= 2 THEN times[2] - times[1]
                        ELSE 1
        IN  /\ tpl.used = << expected >>
            /\ \A i \in 1..(Len(store.axis) - 1) :
                  store.axis[i + 1] - store.axis[i] = expected

\* a sample of one point and no frequency given anywhere: daily entries
C11_Witness ==
    /\ tpl.out = "ok"
    /\ tpl.freq = << >> /\ cfg.freq = << >>
    /\ Len(tpl.sample.times) = 1
    /\ tpl.used = << 1 >>
    /\ Len(store.axis) >= 3

\* C12: right after a template was created, directly or through the
\* create-template command, no chunk of a data variable is stored and every
\* cell reads as fill.
C12_TemplateHasNoPayload ==
    [][(tpl'.calls # tpl.calls /\ tpl'.out = "ok")
          => /\ store'.written = {}
             /\ \A i \in 1..Len(store'.cells) : store'.cells[i].miss]_vars

\* C13: a convert called while an archive exists at the output path does not
\* replace it and does not return normally.
C13_ConvertKeepsExisting ==
    \A w \in Threads :
        (th[w].op = "convert" /\ th[w].before.exists)
            => /\ store = th[w].before
               /\ th[w].pc # "DONE"

\* C14: an attempt that the store refused for the fragment's shape ends the
\* invocation at once: it is never followed by a sleep and another attempt,
\* and when it was the first failure the invocation made one attempt only.
C14_MismatchNotRetried ==
    \A w \in Threads :
        LET t == th[w] IN
        (t.pc \in Busy \cup {"DONE", "FAILED"} /\ t.last = << "ValueError" >>)
            => /\ t.pc = "FAILED"
               /\ (t.exc = 1 /\ t.regr = 0)
                     => t.attempts = 1 /\ t.sleeps = << >>

\* the kinds a caller may see for a failure whose underlying cause is root:
\* the taxonomy's kind, or the class the code itself raises for that failure
KindsFor(root) ==
    IF root = "RetryLimitExceededError"
    THEN {"MissingDataRegressionError", "RetryLimitExceededError"}
    ELSE IF root = "OSError" THEN {"TransientWriteError", "OSError"}
    ELSE IF root = "ValueError" THEN {"StructuralMismatchError", "ValueError"}
    ELSE {"OutOfExtentError", "PlanningError", "TransientWriteError",
          "IndexError", "FileNotFoundError"}

\* C15: a failed invocation shows its caller one exception whose kind is the
\* taxonomy's kind for the failure that occurred.
C15_FailureKindMatches ==
    \A w \in Threads :
        th[w].pc = "FAILED"
            => /\ ~IsNone(th[w].err)
               /\ Get(th[w].err).kind \in KindsFor(Get(th[w].err).root)

\* C16 as claimed: the error of a failed invocation reports the number of
\* attempts made and has the last underlying failure as its cause.
C16_FailedCarriesAttempts ==
    \A w \in Threads :
        LET t == th[w] IN
        t.pc = "FAILED"
            => /\ Get(t.err).after = t.attempts
               /\ Get(t.err).cause = Get(t.last)

\* C16 amended: the error reports the number of retries made, which is
\* retries_on_missing and one less than the attempts, and the last underlying
\* failure is its cause or the cause of its cause.
C16_FailedCarriesRetries ==
    \A w \in Threads :
        LET t == th[w] IN
        t.pc = "FAILED"
            => /\ ~IsNone(t.err)
               /\ Get(t.err).after = t.attempts - 1
               /\ Get(t.err).after = cfg.retries
               /\ Get(t.err).root = Get(t.last)
               /\ Get(t.err).cause \in {Get(t.err).root, "ConversionError"}
               /\ (Get(t.err).root = "RetryLimitExceededError") = (t.regr > 0
                      /\ Get(t.err).cause = "RetryLimitExceededError")

\* a budget of two retries used up by a regression and I/O errors
C16_Witness ==
    \E w \in Threads :
        /\ th[w].pc = "FAILED" /\ cfg.retries = 2 /\ th[w].attempts = 3
        /\ th[w].regr > 0
        /\ Get(th[w].err).root = "OSError" /\ Get(th[w].err).after = 2

C18_ExponentialBackoff ==
    \A w \in Threads :
        LET d == th[w].sleeps IN
        /\ \A k \in 1..(Len(d) - 1) : d[k + 1] > d[k]
        /\ \A k \in 1..(Len(d) - 2) : d[k + 2] * d[k] = d[k + 1] * d[k + 1]

\* C19: whatever the instance's earlier operations did, the counter of an
\* operation counts this operation's retries only, so an operation that fails
\* has made retries_on_missing + 1 attempts and one that is running has not
\* made more.
C19_FreshBudget ==
    \A w \in Threads :
        LET t == th[w] IN
        t.pc \in Busy \cup {"DONE", "FAILED"}
            => /\ retried[t.inst] = t.regr + t.exc
                                       - (IF t.pc = "FAILED" THEN 1 ELSE 0)
               /\ t.pc = "FAILED" => t.attempts = cfg.retries + 1
               /\ t.attempts <= cfg.retries + 1

\* an operation that used its whole budget although the operation before it
\* on the same instance had used its own
C19_Witness ==
    \E w \in Threads :
        /\ th[w].pc = "FAILED" /\ cfg.retries = 2
        /\ th[w].prior = 2 /\ th[w].attempts = 3

\* C20: a returned plan has every chunk length between 1 and the length of its
\* dimension, and its byte size is within the budget unless every chunk
\* length is 1.
C20_PlanWithinBudget ==
    adv.pc = "done"
        => /\ \A d \in DimNames :
                 1 <= adv.chunks[d] /\ adv.chunks[d] <= adv.dims[d]
           /\ \/ adv.chunks["time"] * adv.chunks["lat"] * adv.chunks["lon"]
                     * adv.dtype <= adv.target
              \/ \A d \in DimNames : adv.chunks[d] = 1

\* a plan that had to be shrunk in more than one dimension and fits the
\* budget with a chunk longer than 1
C20_Witness ==
    /\ adv.pc = "done"
    /\ adv.dims = [d \in DimNames |-> 4] /\ adv.dtype = 4 /\ adv.target = 8
    /\ adv.chunks["time"] * adv.chunks["lat"] * adv.chunks["lon"] * 4 <= 8
    /\ \E d \in DimNames : adv.chunks[d] > 1
    /\ adv.steps >= 3

\* C21: when the full-size byte product is already below the target, the
\* returned plan is the full dimension lengths, unshrunk and never longer than
\* a dimension; and a second recommendation on the same inputs returns the
\* plan of the first.
C21_SmallDatasetUnshrunk ==
    adv.pc = "done"
        => /\ adv.dims["time"] * adv.dims["lat"] * adv.dims["lon"] * adv.dtype
                  < adv.target
              => adv.chunks = adv.dims /\ adv.steps = 0
           /\ \A d \in DimNames : adv.chunks[d] <= adv.dims[d]
           /\ ~IsNone(adv.prev) => adv.chunks = Get(adv.prev)

\* a small dataset recommended twice
C21_Witness ==
    /\ adv.pc = "done"
    /\ ~IsNone(adv.prev)
    /\ adv.dims = [d \in DimNames |-> IF d = "lon" THEN 1 ELSE 2]
    /\ adv.dtype = 1 /\ adv.target = 7
    /\ adv.chunks = adv.dims

\* C22: validate_chunks warns of chunks too small exactly when the plan's byte
\* size is below 1 MiB, of chunks too large exactly when it is above 100 MiB,
\* and of an overly granular dimension for each dimension whose chunk length
\* is 1 while the dimension is large; the user's plan is returned unchanged.
C22_ValidateClassifies ==
    adv.pc = "validated"
        => LET bytes == adv.plan["time"] * adv.plan["lat"] * adv.plan["lon"]
                            * adv.dtype
           IN  /\ adv.warnings.small <=> bytes < 1048576
               /\ adv.warnings.large <=> bytes > 104857600
               /\ \A d \in DimNames :
                      adv.plan[d] = 1 /\ adv.dims[d] >= LargeDimLen
                          => d \in adv.warnings.granular
               /\ adv.planOut = adv.plan

\* a plan of exactly 1 MiB with one granular dimension: no size warning
C22_Witness ==
    /\ adv.pc = "validated"
    /\ adv.plan = [d \in DimNames |-> IF d = "time" THEN 1 ELSE 512]
    /\ adv.dims = [d \in DimNames |-> 512]
    /\ adv.dtype = 4
    /\ adv.warnings = [small |-> FALSE, large |-> FALSE, granular |-> {"time"}]

\* C23: constructing a Packer succeeds exactly when nbits is 8, 16 or 32; for
\* every other bit-width ValueError is raised and no Packer exists.
C23_PackerBits ==
    /\ pk.pc = "packer" => pk.asked \in {8, 16, 32} /\ pk.nbits = pk.asked
    /\ pk.pc = "ValueError" => pk.asked \notin {8, 16, 32}

\* the width of the test: Packer(nbits=10) raises
C23_Witness == pk.pc = "ValueError" /\ pk.asked = 10

Abs(n) == IF n < 0 THEN 0 - n ELSE n

RECURSIVE Gcd(_, _)
Gcd(a, b) == IF b = 0 THEN a ELSE Gcd(b, a % b)

\* a fraction with a positive denominator in lowest terms
Lowest(n, d) == << n \div Gcd(Abs(n), d), d \div Gcd(Abs(n), d) >>

\* C24: compute_scale_and_offset returns scale = (vmax - vmin) / (2^b - 1)
\* when vmax # vmin and scale = 1 when vmax = vmin, and in both cases
\* offset = vmin + 2^(b-1) * scale.
C24_ScaleAndOffset ==
    (pk.pc = "packer" /\ ~IsNone(pk.out)
        /\ Get(pk.out).op = "compute_scale_and_offset")
        => LET r == Get(pk.out)
               b == pk.nbits
               top == Pow2(b) - 1
               half == Pow2(b - 1)
           IN  IF r.vmax # r.vmin
               THEN /\ Lowest(r.scale.num, r.scale.den)
                        = Lowest(r.vmax - r.vmin, top)
                    /\ Lowest(r.offset.num, r.offset.den)
                        = Lowest(r.vmin * top + half * (r.vmax - r.vmin), top)
               ELSE /\ Lowest(r.scale.num, r.scale.den) = << 1, 1 >>
                    /\ Lowest(r.offset.num, r.offset.den)
                        = << r.vmin + half, 1 >>

\* a 16-bit scale of a range of two, and of an empty range
C24_Witness ==
    /\ pk.pc = "packer" /\ ~IsNone(pk.out)
    /\ Get(pk.out).op = "compute_scale_and_offset"
    /\ pk.nbits = 16
    /\ Get(pk.out).vmin = 0 /\ Get(pk.out).vmax = 2
    /\ Get(pk.out).scale = Frac(2, 65535)
    /\ Get(pk.out).offset = Frac(65536, 65535)

\* the variable is selected for packing and carries both attributes
WantsPacking(r, v) ==
    /\ r.ds[v].present
    /\ IF IsNone(r.variables) THEN r.ds[v].numeric
       ELSE v \in Get(r.variables)
    /\ ~IsNone(r.ds[v].vmin) /\ ~IsNone(r.ds[v].vmax)

C26_SharedInstanceBudget ==
    \A w \in Threads : th[w].attempts <= cfg.retries + 1

\* the cells invocation t wrote, position by position: the archive's
\* missingness differs from the input's at some cell
WrittenMaskDiffers(st, t) ==
    LET lo == IF ~IsNone(t.region) THEN Get(t.region)[1]
              ELSE IF t.op = "append" THEN Len(st.axis) - Len(t.ds.times)
              ELSE 0
    IN  \E k \in 1..Len(t.ds.times) :
            /\ lo + k \in 1..Len(st.cells)
            /\ st.cells[lo + k].miss # t.ds.vals[k].miss

\* C27: with a missing check active, VERIFY reports a regression exactly when
\* the missingness of the written cells read back from the archive differs
\* from the input's at some cell, in either direction.
C27_VerifyReportsMismatch ==
    [][\A w \in Threads :
          (th[w].pc = "VERIFY" /\ th[w]'.pc # "VERIFY" /\ cfg.check # "none")
              => (th[w]'.regr = th[w].regr + 1
                     <=> WrittenMaskDiffers(store, th[w]))]_vars

\* the parts of the state order that do not depend on where RETRY leads:
\* PROCESS follows OPEN, the region is located after PROCESS, VERIFY follows
\* a WRITE that did not raise, DONE follows VERIFY, or WRITE when no missing
\* check is configured
OrderedStep(t, u) ==
    /\ u.pc = "PROCESS" => t.pc = "OPEN"
    /\ u.pc = "LOCATE" => t.pc = "PROCESS"
    /\ u.pc = "VERIFY" => t.pc = "WRITE" /\ u.exc = t.exc
    /\ u.pc = "DONE" => \/ t.pc = "VERIFY"
                        \/ t.pc = "WRITE" /\ cfg.check = "none"

\* C28 as stated: the states of an invocation occur in the order OPEN,
\* PROCESS, WRITE, VERIFY; a RETRY re-enters WRITE, so OPEN and PROCESS happen
\* once per invocation.
C28_RetryReentersWrite ==
    [][\A w \in Threads :
          th[w].pc # th[w]'.pc
              => /\ OrderedStep(th[w], th[w]')
                 /\ th[w]'.pc = "OPEN" => th[w].pc \in Resting
                 /\ th[w]'.pc = "WRITE"
                       => th[w].pc \in {"PROCESS", "LOCATE", "RETRY"}
                 /\ th[w].pc = "RETRY" => th[w]'.pc = "WRITE"]_vars

\* C28 amended: a RETRY re-enters OPEN, so OPEN and PROCESS happen once per
\* attempt; the order within an attempt is as stated.
C28_RetryReentersOpen ==
    [][\A w \in Threads :
          th[w].pc # th[w]'.pc
              => /\ OrderedStep(th[w], th[w]')
                 /\ th[w]'.pc = "OPEN" => th[w].pc \in Resting \cup {"RETRY"}
                 /\ th[w]'.pc = "WRITE" => th[w].pc \in {"PROCESS", "LOCATE"}
                 /\ th[w].pc = "RETRY" => th[w]'.pc = "OPEN"
                 /\ th[w]'.pc = "PROCESS"
                       => th[w]'.attempts = th[w].attempts + 1]_vars

\* an invocation that was retried after a regression, opened its input a
\* second time and ended in DONE
C28_Witness ==
    \E w \in Threads :
        /\ th[w].pc = "DONE" /\ th[w].regr = 1 /\ th[w].attempts = 2
        /\ th[w].writes = 2

\* C29: a write_region invocation changes only data cells inside its Region:
\* each of its steps leaves the archive's shape, chunk plan and attributes and
\* every cell outside the Region as they were.
C29_WriteRegionFrame ==
    [][\A w \in Threads :
          (/\ th[w].pc = "WRITE" /\ th[w].op = "write_region"
           /\ ~IsNone(th[w].region) /\ th[w]' # th[w])
              => /\ store'.exists = store.exists
                 /\ store'.axis = store.axis
                 /\ store'.lat = store.lat
                 /\ store'.chunkT = store.chunkT
                 /\ store'.filt = store.filt
                 /\ store'.range = store.range
                 /\ Len(store'.cells) = Len(store.cells)
                 /\ \A i \in 1..Len(store.cells) :
                        ~(Get(th[w].region)[1] < i /\ i <= Get(th[w].region)[2])
                            => store'.cells[i] = store.cells[i]]_vars

\* the archive with the cells outside region r replaced by those of alt
OutsideReplaced(st, r, alt) ==
    [st EXCEPT !.cells = [i \in 1..Len(@) |->
                             IF r[1] < i /\ i <= r[2] THEN @[i] ELSE alt[i]]]

\* C30: the VERIFY step of a write_region invocation checks only its own
\* Region: every archive that agrees with the present one on the cells inside
\* the Region gives the same VERIFY outcome.
C30_VerifyOwnRegion ==
    \A w \in Threads :
        (th[w].pc = "VERIFY" /\ th[w].op = "write_region"
            /\ ~IsNone(th[w].region))
            => \A alt \in [1..Len(store.cells) -> {NaN, Num(1), Num(2)}] :
                  HasMissing(OutsideReplaced(store, Get(th[w].region), alt),
                             th[w].ds, th[w].region)
                      = HasMissing(store, th[w].ds, th[w].region)

\* writer 1 verifies its Region after writer 2 has filled a cell outside it
C30_Witness ==
    /\ th[1].pc = "VERIFY" /\ th[1].op = "write_region"
    /\ th[2].pc = "DONE"
    /\ ~IsNone(th[1].region)
    /\ \E i \in 1..Len(store.cells) :
           /\ ~(Get(th[1].region)[1] < i /\ i <= Get(th[1].region)[2])
           /\ ~store.cells[i].miss
    /\ ~HasMissing(store, th[1].ds, th[1].region)

\* C31: after append reaches DONE, on the first attempt or after retries, the
\* archive's sequence axis is the axis at the call followed by the fragment's
\* coordinates once each, and the entries stored before are unchanged.
C31_AppendOnce ==
    \A w \in Threads :
        LET t == th[w] IN
        (t.pc = "DONE" /\ t.op = "append")
            => /\ store.axis = t.before.axis \o t.ds.times
               /\ Len(store.cells) = Len(store.axis)
               /\ \A i \in 1..Len(t.before.cells) :
                      store.cells[i] = t.before.cells[i]

\* C32: when the VERIFY step itself cannot run, the attempt counts as having
\* no regression: the invocation ends in DONE and no retry is consumed,
\* whatever the written region holds.
C32_VerifyFailureIsSuccess ==
    [][\A w \in Threads :
          (th[w].pc = "VERIFY" /\ th[w]'.vfail = th[w].vfail + 1)
              => /\ th[w]'.pc = "DONE"
                 /\ retried' = retried
                 /\ th[w]'.regr = th[w].regr
                 /\ th[w]'.sleeps = th[w].sleeps
                 /\ store' = store]_vars

\* a first attempt that lost a cell ended in DONE because its verification
\* could not run
C32_Witness ==
    \E w \in Threads :
        /\ th[w].pc = "DONE" /\ th[w].vfail = 1 /\ th[w].lost
        /\ th[w].attempts = 1 /\ th[w].regr = 0
        /\ retried[th[w].inst] = 0

\* C33: with the missing check disabled VERIFY is skipped, so an invocation
\* whose write does not raise ends in DONE after one write and no sleep; with
\* "all" every data variable of the archive is checked, and with a named
\* subset exactly those variables are checked.
C33_CheckedVariables ==
    /\ \A w \in Threads :
          (cfg.check = "none" /\ th[w].pc = "DONE" /\ th[w].exc = 0)
              => th[w].writes = 1 /\ th[w].sleeps = << >>
    /\ chk.pc = "checked"
          => /\ chk.check.kind = "disabled" => chk.compared = {}
             /\ chk.check.kind = "all" => chk.compared = chk.storeVars
             /\ chk.check.kind = "list" => chk.compared = chk.check.names

\* C34: an archive is never deleted: a create_template call on the path of an
\* archive keeps every data cell a writer has populated, under its label.
C34_TemplateKeepsData ==
    [][(tpl'.calls = tpl.calls + 1 /\ store.exists)
          => /\ store'.exists
             /\ \A i \in 1..Len(store.cells) :
                    ~store.cells[i].miss
                        => \E j \in 1..Len(store'.cells) :
                               /\ store'.axis[j] = store.axis[i]
                               /\ store'.cells[j] = store.cells[i]]_vars

\* C35: every dimension the configuration gives a chunk length is chunked with
\* that length when the template is built and at every write, whatever the
\* dimension's name; a dimension without a configured length keeps its prior
\* chunking, or its full length when it has none.
C35_ConfiguredChunksApplied ==
    lay.pc = "laid"
        => \A d \in LayoutDims :
               lay.chunks[d] =
                   IF ~IsNone(lay.chunking[d]) THEN Get(lay.chunking[d])
                   ELSE IF ~IsNone(lay.prior) THEN Get(lay.prior)
                   ELSE LayoutLen

\* C36: for a fragment whose sequence coordinates are a contiguous run of
\* entries of a sorted, duplicate-free axis, the located region [s, e) has
\* 0 <= s < e <= axis length and e - s is the fragment's number of entries.
C36_RunLocated ==
    \A w \in Threads :
        LET t == th[w]
            n == Len(t.ds.times)
        IN
        (/\ t.pc = "WRITE" /\ t.op = "write_region" /\ ~IsNone(t.region)
         /\ \A i, j \in 1..Len(store.axis) : i < j => store.axis[i] < store.axis[j]
         /\ \E a \in 1..Len(store.axis) :
                /\ a + n - 1 <= Len(store.axis)
                /\ t.ds.times = SubSeq(store.axis, a, a + n - 1))
            => LET s == Get(t.region)[1]
                   e == Get(t.region)[2]
               IN  /\ 0 <= s /\ s < e /\ e <= Len(store.axis)
                   /\ e - s = n

\* the entries 4, 7 of the axis 1, 2, 4, 7 were located as [2, 4)
C36_Witness ==
    \E w \in Threads :
        /\ th[w].pc = "WRITE" /\ th[w].op = "write_region"
        /\ store.axis = << 1, 2, 4, 7 >>
        /\ th[w].ds.times = << 4, 7 >>
        /\ th[w].region = Some(<< 2, 4 >>)

\* the attempts an invocation has started: the one a thread at OPEN is
\* starting counts
Started(t) == t.attempts + (IF t.pc = "OPEN" THEN 1 ELSE 0)

\* C37: throughout every invocation the retry counter lies between 0 and
\* retries_on_missing and grows by one at a time, and the number of attempts
\* started so far is the counter plus one (read at every attempt and at the
\* end of the invocation, not inside the sleep that follows an increment).
C37_CounterTracksAttempts ==
    [][\A w \in Threads :
          LET t == th[w]'
              c == retried'[t.inst]
          IN  t.pc # "idle"
                  => /\ 0 <= c /\ c <= cfg.retries
                     /\ th[w].pc \notin Resting
                            => c - retried[th[w].inst] \in {0, 1}
                     /\ t.pc # "RETRY" => Started(t) = c + 1]_vars

\* C38: for every dimension of the archive other than the sequence dimension
\* the Region Locator returns the full [0, length) interval.
C38_OtherDimsInFull ==
    \A w \in Threads :
        LET t == th[w] IN
        ~IsNone(t.others)
            => \A d \in DOMAIN OtherDims(store) :
                   /\ d \in DOMAIN Get(t.others)
                   /\ SliceInterval(Get(t.others)[d], OtherDims(store)[d])
                          = << 0, OtherDims(store)[d] >>

\* a fragment of one latitude was located in an archive of two: the region
\* covers both
C38_Witness ==
    \E w \in Threads :
        /\ th[w].pc = "WRITE" /\ th[w].op = "write_region"
        /\ store.lat = 2 /\ th[w].ds.lat = 1
        /\ ~IsNone(th[w].others)
        /\ SliceInterval(Get(th[w].others)["lat"], store.lat) = << 0, 2 >>

====
